---- MODULE Spec2Model ----
(***************************************************************************)
(* Model of frontend/app.js of the healthcare symptom checker: the submit  *)
(* handler, the history loader, the saved-result lookup, the clear         *)
(* handler, the typing effect (typeResult) and the markup builder          *)
(* (buildResultHTML).                                                      *)
(*                                                                         *)
(* Representation.                                                         *)
(*  - A JavaScript value is a record tagged by k: "undefined", "null",     *)
(*    "string" (field s), "number" (field n), "object", "array".           *)
(*  - A text is a sequence of pieces whose concatenation is the text.      *)
(*    A letter that a case conversion or a length depends on is a piece    *)
(*    of its own; fixed template text is written as one piece.             *)
(*  - A markup string is a sequence of fragments, each a non-empty         *)
(*    sequence of tokens (opening tag, closing tag, text run); the string  *)
(*    is their concatenation.  buildResultHTML returns one fragment per    *)
(*    section of the card.  html.length is the number of fragments and     *)
(*    html.slice(0, i) is the first i of them: the timer reveals one       *)
(*    fragment per tick where the code reveals one UTF-16 unit.  The       *)
(*    whitespace between the tags of the templates is left out.            *)
(***************************************************************************)
EXTENDS Integers, Sequences, FiniteSets, TLC

VARIABLES
    resultEl,     \* resultEl.innerHTML, as tokens
    historyList,  \* the <li> items of historyList
    btnDisabled,  \* analyze-btn.disabled
    tasks,        \* the async handlers suspended at an await, in issue order
    timers,       \* the setInterval timers not yet cleared, in creation order
    store,        \* the backend's history store
    nextId,       \* the backend's next query_id
    now           \* Date.now()

vars == <<resultEl, historyList, btnDisabled, tasks, timers, store, nextId, now>>

----------------------------------------------------------------------------
(* JavaScript values *)

Undefined == [k |-> "undefined"]
Null == [k |-> "null"]
Str(s) == [k |-> "string", s |-> s]
Num(n) == [k |-> "number", n |-> n]
Arr(items) == [k |-> "array", items |-> items]

\* x is null or undefined: what ?. and a member access test.
IsNullish(v) == v.k \in {"undefined", "null"}

\* ToBoolean(v): what `v ? a : b` and `v || d` test.
Truthy(v) ==
    CASE v.k \in {"undefined", "null"} -> FALSE
      [] v.k = "string" -> v.s # <<>>
      [] v.k = "number" -> v.n # 0
      [] OTHER -> TRUE

\* `${v}` in a template literal: String(v).
ToText(v) ==
    CASE v.k = "undefined" -> <<"undefined">>
      [] v.k = "null" -> <<"null">>
      [] v.k = "string" -> v.s
      [] v.k = "number" -> <<ToString(v.n)>>
      [] OTHER -> <<"[object Object]">>

\* The letters, in upper and in lower case.
UpperLetters ==
    << "A", "B", "C", "D", "E", "F", "G", "H", "I", "J", "K", "L", "M",
       "N", "O", "P", "Q", "R", "S", "T", "U", "V", "W", "X", "Y", "Z" >>
LowerLetters ==
    << "a", "b", "c", "d", "e", "f", "g", "h", "i", "j", "k", "l", "m",
       "n", "o", "p", "q", "r", "s", "t", "u", "v", "w", "x", "y", "z" >>

LowerOf(ch) ==
    IF \E n \in 1..Len(UpperLetters) : UpperLetters[n] = ch
    THEN LowerLetters[CHOOSE n \in 1..Len(UpperLetters) : UpperLetters[n] = ch]
    ELSE ch

UpperOf(ch) ==
    IF \E n \in 1..Len(LowerLetters) : LowerLetters[n] = ch
    THEN UpperLetters[CHOOSE n \in 1..Len(LowerLetters) : LowerLetters[n] = ch]
    ELSE ch

\* String.prototype.toLowerCase / toUpperCase on a text.
ToLowerCase(s) == [n \in 1..Len(s) |-> LowerOf(s[n])]
ToUpperCase(s) == [n \in 1..Len(s) |-> UpperOf(s[n])]

----------------------------------------------------------------------------
(* Markup tokens *)

NoText == <<>>
Open(tag, base, mod) ==
    [t |-> "open", tag |-> tag, base |-> base, mod |-> mod, txt |-> NoText]
Close(tag) ==
    [t |-> "close", tag |-> tag, base |-> "", mod |-> NoText, txt |-> NoText]
Text(s) ==
    [t |-> "text", tag |-> "", base |-> "", mod |-> NoText, txt |-> s]

RECURSIVE Join(_)
\* Array.prototype.join(""): the concatenation of the fragments.
Join(frags) == IF frags = <<>> THEN <<>> ELSE Head(frags) \o Join(Tail(frags))

----------------------------------------------------------------------------
(* buildResultHTML *)

\* Property access on an object that may lack the field: obj.f.
Field(obj, f) == IF f \in DOMAIN obj THEN obj[f] ELSE Undefined

\* data.probable_conditions || [] and data.next_steps || [].
ItemsOrEmpty(v) == IF Truthy(v) THEN v.items ELSE <<>>

\* EscalationHTML without ${data.escalation.message}.
EscalationHTMLNoMessage(data) ==
    LET e == Field(data, "escalation")
    IN  IF Truthy(e)
        THEN << Open("div", "alert", ToText(Field(e, "level"))),
                Text(<<"(siren) ">>),
                Open("b", "", NoText),
                Text(ToUpperCase(Field(e, "level").s)),
                Close("b"),
                Text(<<": ">>),
                Close("div") >>
        ELSE <<>>

\* The escalation banner, or "" when data.escalation is falsy.
EscalationHTML(data) ==
    LET e == Field(data, "escalation")
    IN  IF Truthy(e)
        THEN << Open("div", "alert", ToText(Field(e, "level"))),
                Text(<<"(siren) ">>),
                Open("b", "", NoText),
                Text(ToUpperCase(Field(e, "level").s)),
                Close("b"),
                Text(<<": ">> \o ToText(Field(e, "message"))),
                Close("div") >>
        ELSE <<>>

\* data.escalation.level.toUpperCase() throws a TypeError unless level is a
\* string.
EscalationThrows(data) ==
    LET e == Field(data, "escalation")
    IN  Truthy(e) /\ Field(e, "level").k # "string"

\* ConfidenceClass without .toLowerCase().
ConfidenceClassRaw(c) ==
    IF IsNullish(Field(c, "confidence")) THEN Undefined
    ELSE Str(Field(c, "confidence").s)

\* c.confidence?.toLowerCase(): undefined for a nullish confidence, the
\* lower-cased text for a string.
ConfidenceClass(c) ==
    IF IsNullish(Field(c, "confidence")) THEN Undefined
    ELSE Str(ToLowerCase(Field(c, "confidence").s))

\* c.confidence?.toLowerCase() throws a TypeError for a value that is neither
\* nullish nor a string: it has no toLowerCase method.
ConfidenceThrows(c) ==
    /\ ~IsNullish(Field(c, "confidence"))
    /\ Field(c, "confidence").k # "string"

\* The block of one condition.
ConditionHTML(c) ==
    << Open("div", "condition", NoText),
       Open("h3", "", NoText), Text(ToText(Field(c, "name"))), Close("h3"),
       Open("div", "confidence-bar", ToText(ConfidenceClass(c))),
       Open("div", "", NoText), Close("div"),
       Close("div"),
       Open("p", "", NoText),
       Open("b", "", NoText), Text(<<"Confidence:">>), Close("b"),
       Text(<<" ">> \o ToText(Field(c, "confidence"))),
       Close("p"),
       Open("p", "", NoText), Text(ToText(Field(c, "rationale"))), Close("p"),
       Close("div") >>

\* ConditionsHTML with the blocks in reverse order.
ConditionsHTMLReversed(data) ==
    LET cs == ItemsOrEmpty(Field(data, "probable_conditions"))
    IN  Join([n \in 1..Len(cs) |-> ConditionHTML(cs[Len(cs) + 1 - n])])

\* (data.probable_conditions || []).map(...).join("")
ConditionsHTML(data) ==
    LET cs == ItemsOrEmpty(Field(data, "probable_conditions"))
    IN  Join([n \in 1..Len(cs) |-> ConditionHTML(cs[n])])

ConditionsThrow(data) ==
    LET cs == ItemsOrEmpty(Field(data, "probable_conditions"))
    IN  \E n \in 1..Len(cs) : ConfidenceThrows(cs[n])

\* (data.next_steps || []).map((s) => `<li>${s}</li>`).join("")
NextStepsHTML(data) ==
    LET ss == ItemsOrEmpty(Field(data, "next_steps"))
    IN  Join([n \in 1..Len(ss) |->
                << Open("li", "", NoText), Text(ToText(ss[n])), Close("li") >>])

\* data.metadata?.f
MetaField(data, f) ==
    IF IsNullish(Field(data, "metadata")) THEN Undefined
    ELSE Field(Field(data, "metadata"), f)

\* new Date(ms).toLocaleString()
LocaleString(ms) == <<"date ", ToString(ms)>>

\* MetaHTML without the || "local" of line 151.
MetaHTMLNoDefault(data, t) ==
    LET model == ToText(MetaField(data, "model"))
        stamp == IF Truthy(MetaField(data, "timestamp"))
                 THEN MetaField(data, "timestamp").n ELSE t
    IN  << Open("div", "meta", NoText),
           Open("small", "", NoText),
           Open("b", "", NoText), Text(<<"Model:">>), Close("b"),
           Text(<<" ">> \o model),
           Close("small"),
           Text(<<" |">>),
           Open("small", "", NoText), Text(LocaleString(stamp)), Close("small"),
           Close("div") >>

\* The footer: the model name (or "local") and the formatted timestamp (or
\* the current time t).
MetaHTML(data, t) ==
    LET model == IF Truthy(MetaField(data, "model"))
                 THEN ToText(MetaField(data, "model")) ELSE <<"local">>
        stamp == IF Truthy(MetaField(data, "timestamp"))
                 THEN MetaField(data, "timestamp").n ELSE t
    IN  << Open("div", "meta", NoText),
           Open("small", "", NoText),
           Open("b", "", NoText), Text(<<"Model:">>), Close("b"),
           Text(<<" ">> \o model),
           Close("small"),
           Text(<<" |">>),
           Open("small", "", NoText), Text(LocaleString(stamp)), Close("small"),
           Close("div") >>

\* The fragments that are not empty.
NonEmpty(frags) == SelectSeq(frags, LAMBDA f : f # <<>>)

\* The template of lines 142-154 around its four interpolated parts, one
\* fragment per section (disclaimer, banner, conditions, next steps, footer)
\* and a last one for the closing tag of the card.
CardHTML(data, escalation, conditions, nextSteps, meta) ==
    NonEmpty(<<
       << Open("div", "result-card", NoText),
          Open("p", "disclaimer", NoText),
          Text(ToText(Field(data, "disclaimer"))),
          Close("p") >>,
       escalation,
       << Open("h2", "", NoText), Text(<<"Probable Conditions">>),
          Close("h2") >> \o conditions,
       << Open("h2", "", NoText), Text(<<"Recommended Next Steps">>),
          Close("h2"),
          Open("ul", "", NoText) >> \o nextSteps \o << Close("ul") >>,
       meta,
       << Close("div") >> >>)

\* buildResultHTML(data) called when Date.now() is t: the markup, or the
\* TypeError it throws.
buildResultHTML(data, t) ==
    IF EscalationThrows(data) \/ ConditionsThrow(data)
    THEN [threw |-> TRUE, html |-> <<>>]
    ELSE [threw |-> FALSE,
          html |-> CardHTML(data, EscalationHTML(data), ConditionsHTML(data),
                            NextStepsHTML(data), MetaHTML(data, t))]

----------------------------------------------------------------------------
(* The DOM round trip of typeResult: tempDiv.innerHTML = prefix, then
   resultEl.innerHTML = tempDiv.innerHTML.  The parser closes at the end of
   input every element still open, and the serializer writes those closing
   tags. *)

RECURSIVE OpenStack(_, _)
\* The tags still open after the tokens, innermost first.
OpenStack(tokens, stack) ==
    IF tokens = <<>> THEN stack
    ELSE LET tk == Head(tokens)
         IN  CASE tk.t = "open" -> OpenStack(Tail(tokens), <<tk.tag>> \o stack)
               [] tk.t = "close" ->
                    OpenStack(Tail(tokens),
                              IF stack = <<>> THEN stack ELSE Tail(stack))
               [] OTHER -> OpenStack(Tail(tokens), stack)

Reparsed(tokens) ==
    LET stack == OpenStack(tokens, <<>>)
    IN  tokens \o [n \in 1..Len(stack) |-> Close(stack[n])]

\* html.slice(0, i) as tokens.
Slice(html, i) == Join(SubSeq(html, 1, i))

----------------------------------------------------------------------------
(* Bounds and inputs *)

MaxActive == 2    \* suspended handlers and running timers when the user acts
MaxQueries == 1   \* records the backend stores in a run

\* What the user may type into #symptoms.
RawInputs == { <<" ">>, <<" ", "f", "l", "u", " ">> }

\* String.prototype.trim
RECURSIVE TrimStart(_)
TrimStart(s) ==
    IF s # <<>> /\ Head(s) = " " THEN TrimStart(Tail(s)) ELSE s
RECURSIVE TrimEnd(_)
TrimEnd(s) ==
    IF s # <<>> /\ s[Len(s)] = " " THEN TrimEnd(SubSeq(s, 1, Len(s) - 1)) ELSE s
Trim(s) == TrimEnd(TrimStart(s))

Obj(model, stamp) == [k |-> "object", model |-> model, timestamp |-> stamp]
Condition(name, confidence) ==
    [k |-> "object", name |-> Str(name), confidence |-> confidence,
     rationale |-> Str(<<"because">>)]
Disclaimer == Str(<<"Educational use only">>)

\* The advisory records the backend may answer an analysis with.
ModelRecords ==
    { [k |-> "object", disclaimer |-> Disclaimer,
       probable_conditions |-> Arr(<<>>), next_steps |-> Arr(<<>>),
       metadata |-> Obj(Str(<<"gpt">>), Num(1))] }

\* The body of a failure reply that is JSON: an error object.
ErrorBody == [k |-> "object", detail |-> Str(<<"error">>)]

NoReply == [replied |-> FALSE]
Reply(ok, parseable, body) ==
    [replied |-> TRUE, ok |-> ok, parseable |-> parseable, body |-> body]
\* A failure reply: an error status, with an error object or with a body that
\* is not JSON.
FailureReplies == { Reply(FALSE, TRUE, ErrorBody), Reply(FALSE, FALSE, Undefined) }

Task(kind, arg) == [kind |-> kind, arg |-> arg, reply |-> NoReply]
NoArg == [none |-> TRUE]

RemoveAt(seq, k) == SubSeq(seq, 1, k - 1) \o SubSeq(seq, k + 1, Len(seq))

\* The handlers suspended at an await and the timers running.
Active == Len(tasks) + Len(timers)

----------------------------------------------------------------------------
(* What the handlers write *)

LoadingHTML ==
    << Open("p", "loading", NoText), Text(<<"Analyzing your symptoms...">>),
       Close("p") >>
ErrorHTML(message) ==
    << Open("p", "error", NoText), Text(<<"(x) ">> \o message), Close("p") >>
NoSavedHTML == ErrorHTML(<<"No saved response found.">>)

FetchError == <<"Failed to fetch">>
SyntaxError == <<"Unexpected token">>
TypeError == <<"is not a function">>

----------------------------------------------------------------------------
(* typeResult *)

\* buildResultHTML(data) at the current time.
Rendering(data) == buildResultHTML(data, now)

\* typeResult(data) when buildResultHTML returns: the result area is emptied
\* and a new interval timer starts at i = 0.  No timer is cleared.
typeResult(data) ==
    /\ resultEl' = <<>>
    /\ timers' = Append(timers, [html |-> Rendering(data).html, i |-> 0])

\* The length of the slice a timer at counter i writes, and its counter after.
TickSlice(tm) == tm.i
\* TickNext with a counter that starts over at the end of the string.
TickNextWrapping(tm) == (tm.i + 1) % Len(tm.html)
TickNext(tm) == tm.i + 1

\* Line 114 (i++) and line 116: the counter of timers[k] moves on, and the
\* timer is cleared when the counter has reached html.length.
TimerFires(k) ==
    timers' = IF TickNext(timers[k]) >= Len(timers[k].html)
              THEN RemoveAt(timers, k)
              ELSE [timers EXCEPT ![k].i = TickNext(timers[k])]

\* One firing of the interval callback of timers[k].
Tick(k) ==
    /\ k \in 1..Len(timers)
    /\ LET tm == timers[k]
           tempDiv == Reparsed(Slice(tm.html, TickSlice(tm)))
       IN  resultEl' = Reparsed(tempDiv)
    /\ TimerFires(k)
    /\ UNCHANGED <<historyList, btnDisabled, tasks, store, nextId, now>>

----------------------------------------------------------------------------
(* The submit handler *)

\* The browser dispatches no submit event while the form's submit button is
\* disabled.
CanSubmit == ~btnDisabled

\* SubmitStart without line 68: the button stays enabled.
SubmitStartNoDisable(raw) ==
    /\ btnDisabled' = btnDisabled
    /\ resultEl' = LoadingHTML
    /\ tasks' = Append(tasks, Task("analyze", [symptoms |-> Trim(raw)]))

\* Lines 62-77: up to the await of fetch.
SubmitStart(raw) ==
    /\ btnDisabled' = TRUE
    /\ resultEl' = LoadingHTML
    /\ tasks' = Append(tasks, Task("analyze", [symptoms |-> Trim(raw)]))

Submit(raw) ==
    /\ CanSubmit
    /\ Active < MaxActive
    /\ nextId <= MaxQueries
    /\ SubmitStart(raw)
    /\ UNCHANGED <<historyList, timers, store, nextId, now>>

\* Lines 78-80 and the catch: the reply has arrived and response.json() has
\* settled.
AnalyzeContinue(k) ==
    LET reply == tasks[k].reply
        r == Rendering(reply.body)
    IN  IF ~reply.parseable
        THEN /\ resultEl' = ErrorHTML(SyntaxError)
             /\ tasks' = RemoveAt(tasks, k)
             /\ UNCHANGED timers
        ELSE IF r.threw
        THEN /\ resultEl' = ErrorHTML(TypeError)
             /\ tasks' = RemoveAt(tasks, k)
             /\ UNCHANGED timers
        ELSE /\ typeResult(reply.body)
             /\ tasks' = Append(RemoveAt(tasks, k), Task("history", NoArg))

\* The handler without the finally block of lines 83-86.
AnalyzeNoFinally == UNCHANGED btnDisabled

\* Lines 83-86.
AnalyzeFinally == btnDisabled' = FALSE

AnalyzeReplied(k) ==
    /\ k \in 1..Len(tasks)
    /\ tasks[k].kind = "analyze"
    /\ tasks[k].reply.replied
    /\ AnalyzeContinue(k)
    /\ AnalyzeFinally
    /\ UNCHANGED <<historyList, store, nextId, now>>

\* fetch rejects: the backend is unreachable.
AnalyzeRejected(k) ==
    /\ k \in 1..Len(tasks)
    /\ tasks[k].kind = "analyze"
    /\ resultEl' = ErrorHTML(FetchError)
    /\ tasks' = RemoveAt(tasks, k)
    /\ AnalyzeFinally
    /\ UNCHANGED <<historyList, timers, store, nextId, now>>

----------------------------------------------------------------------------
(* loadHistory *)

PreviewLen == 50

\* Preview with >= for >.
PreviewInclusive(symptoms) ==
    IF Len(symptoms) >= PreviewLen
    THEN SubSeq(symptoms, 1, PreviewLen) \o <<"...">>
    ELSE symptoms

\* Line 45: the text of a history item.
Preview(symptoms) ==
    IF Len(symptoms) > PreviewLen
    THEN SubSeq(symptoms, 1, PreviewLen) \o <<"...">>
    ELSE symptoms

Item(text, title, id) == [text |-> text, title |-> title, id |-> id]
NoId == 0      \* an item without a click listener
PlaceholderItem == Item(<<"No previous queries">>, NoText, NoId)
FailedItem == Item(<<"Failed to load history">>, NoText, NoId)

\* Lines 43-53: one <li> per entry, in the order of the reply.
HistoryItems(entries) ==
    [n \in 1..Len(entries) |->
        Item(Preview(entries[n].symptoms.s),
             LocaleString(entries[n].timestamp.n),
             entries[n].query_id)]

\* Lines 35-56, given the parsed body; data.history.length throws when the
\* body has no history array.
HistoryList(body) ==
    LET h == Field(body, "history")
    IN  IF h.k # "array" THEN <<FailedItem>>
        ELSE IF Len(h.items) = 0 THEN <<PlaceholderItem>>
        ELSE HistoryItems(h.items)

HistoryReplied(k) ==
    /\ k \in 1..Len(tasks)
    /\ tasks[k].kind = "history"
    /\ tasks[k].reply.replied
    /\ historyList' = IF tasks[k].reply.parseable
                      THEN HistoryList(tasks[k].reply.body)
                      ELSE <<FailedItem>>
    /\ tasks' = RemoveAt(tasks, k)
    /\ UNCHANGED <<resultEl, btnDisabled, timers, store,
                   nextId, now>>

HistoryRejected(k) ==
    /\ k \in 1..Len(tasks)
    /\ tasks[k].kind = "history"
    /\ historyList' = <<FailedItem>>
    /\ tasks' = RemoveAt(tasks, k)
    /\ UNCHANGED <<resultEl, btnDisabled, timers, store,
                   nextId, now>>

----------------------------------------------------------------------------
(* loadResultById *)

\* Lines 47-51: a click on the n-th history item.
ClickHistoryItem(n) ==
    /\ n \in 1..Len(historyList)
    /\ historyList[n].id # NoId
    /\ Active < MaxActive
    /\ tasks' = Append(tasks, Task("lookup", [id |-> historyList[n].id]))
    /\ UNCHANGED <<resultEl, historyList, btnDisabled, timers, store, nextId, now>>

\* data.history.find((r) => r.query_id === queryId)
Find(entries, id) ==
    IF \E n \in 1..Len(entries) : entries[n].query_id = id
    THEN entries[CHOOSE n \in 1..Len(entries) :
                    /\ entries[n].query_id = id
                    /\ \A m \in 1..(n - 1) : entries[m].query_id # id]
    ELSE Undefined

\* LookupContinue without the test of lines 95-98: record.model_response
\* throws when find returned undefined.
LookupContinueUnchecked(k) ==
    LET reply == tasks[k].reply
        h == Field(reply.body, "history")
        record == Find(h.items, tasks[k].arg.id)
        saved == Field(record, "model_response")
        r == Rendering(saved)
    IN  IF ~reply.parseable
        THEN /\ resultEl' = ErrorHTML(SyntaxError)
             /\ UNCHANGED timers
        ELSE IF h.k # "array" \/ ~Truthy(record) \/ ~Truthy(saved)
        THEN /\ resultEl' = ErrorHTML(TypeError)
             /\ UNCHANGED timers
        ELSE IF r.threw
        THEN resultEl' = ErrorHTML(TypeError) /\ UNCHANGED timers
        ELSE typeResult(saved)

\* Lines 93-102, given the reply.
LookupContinue(k) ==
    LET reply == tasks[k].reply
        h == Field(reply.body, "history")
        record == Find(h.items, tasks[k].arg.id)
        saved == Field(record, "model_response")
        r == Rendering(saved)
    IN  IF ~reply.parseable
        THEN /\ resultEl' = ErrorHTML(SyntaxError)
             /\ UNCHANGED timers
        ELSE IF h.k # "array"
        THEN /\ resultEl' = ErrorHTML(TypeError)
             /\ UNCHANGED timers
        ELSE IF ~Truthy(record) \/ ~Truthy(saved)
        THEN /\ resultEl' = NoSavedHTML
             /\ UNCHANGED timers
        ELSE IF r.threw
        THEN resultEl' = ErrorHTML(TypeError) /\ UNCHANGED timers
        ELSE typeResult(saved)

LookupReplied(k) ==
    /\ k \in 1..Len(tasks)
    /\ tasks[k].kind = "lookup"
    /\ tasks[k].reply.replied
    /\ LookupContinue(k)
    /\ tasks' = RemoveAt(tasks, k)
    /\ UNCHANGED <<historyList, btnDisabled, store, nextId, now>>

LookupRejected(k) ==
    /\ k \in 1..Len(tasks)
    /\ tasks[k].kind = "lookup"
    /\ resultEl' = ErrorHTML(FetchError)
    /\ tasks' = RemoveAt(tasks, k)
    /\ UNCHANGED <<historyList, btnDisabled, timers, store, nextId, now>>

----------------------------------------------------------------------------
(* The clear-history handler *)

\* ClickClear without line 159: the request is sent whatever the user answers.
ClickClearNoConfirm(confirmed) ==
    /\ Active < MaxActive
    /\ tasks' = Append(tasks, Task("clear", NoArg))
    /\ UNCHANGED <<resultEl, historyList, btnDisabled, timers, store, nextId, now>>

\* Line 159: the click and the confirm() dialog.
ClickClear(confirmed) ==
    /\ Active < MaxActive
    /\ tasks' = IF confirmed THEN Append(tasks, Task("clear", NoArg)) ELSE tasks
    /\ UNCHANGED <<resultEl, historyList, btnDisabled, timers, store, nextId, now>>

\* Lines 164-166, and the catch when the body is not JSON.  The alert()
\* dialogs leave no state behind; loadHistory() runs after a parsed reply only.
ClearReplied(k) ==
    /\ k \in 1..Len(tasks)
    /\ tasks[k].kind = "clear"
    /\ tasks[k].reply.replied
    /\ tasks' = IF tasks[k].reply.parseable
                THEN Append(RemoveAt(tasks, k), Task("history", NoArg))
                ELSE RemoveAt(tasks, k)
    /\ UNCHANGED <<resultEl, historyList, btnDisabled, timers, store, nextId, now>>

ClearRejected(k) ==
    /\ k \in 1..Len(tasks)
    /\ tasks[k].kind = "clear"
    /\ tasks' = RemoveAt(tasks, k)
    /\ UNCHANGED <<resultEl, historyList, btnDisabled, timers, store, nextId, now>>

----------------------------------------------------------------------------
(* The backend: the analysis orchestrator and the history store *)

Entry(id, symptoms, t, record) ==
    [k |-> "object", query_id |-> id, symptoms |-> Str(symptoms),
     timestamp |-> Num(t), model_response |-> record]

\* analyze succeeds: one new entry with a fresh query_id, the record returned.
AnalyzeSucceeds(k) ==
    /\ tasks[k].arg.symptoms # <<>>
    /\ nextId <= MaxQueries
    /\ \E record \in ModelRecords :
        /\ store' = Append(store, Entry(nextId, tasks[k].arg.symptoms, now, record))
        /\ tasks' = [tasks EXCEPT ![k].reply = Reply(TRUE, TRUE, record)]
    /\ nextId' = nextId + 1

\* analyze fails with ValidationError (empty symptoms) or UpstreamError: a
\* failure reply, nothing stored.
AnalyzeFails(k) ==
    /\ \E reply \in FailureReplies : tasks' = [tasks EXCEPT ![k].reply = reply]
    /\ UNCHANGED <<store, nextId>>

BackendAnalyze(k) ==
    /\ k \in 1..Len(tasks)
    /\ tasks[k].kind = "analyze"
    /\ ~tasks[k].reply.replied
    /\ (AnalyzeSucceeds(k) \/ AnalyzeFails(k))
    /\ UNCHANGED <<resultEl, historyList, btnDisabled, timers, now>>

\* GET /history: the entries of the store at the time of the request.
BackendHistory(k) ==
    /\ k \in 1..Len(tasks)
    /\ tasks[k].kind \in {"history", "lookup"}
    /\ ~tasks[k].reply.replied
    /\ tasks' = [tasks EXCEPT ![k].reply =
                    Reply(TRUE, TRUE, [k |-> "object", history |-> Arr(store)])]
    /\ UNCHANGED <<resultEl, historyList, btnDisabled, timers, store, nextId, now>>

\* DELETE /history/clear: removes every entry and confirms.
BackendClear(k) ==
    /\ k \in 1..Len(tasks)
    /\ tasks[k].kind = "clear"
    /\ ~tasks[k].reply.replied
    /\ store' = <<>>
    /\ tasks' = [tasks EXCEPT ![k].reply =
                    Reply(TRUE, TRUE, [k |-> "object",
                                       message |-> Str(<<"History cleared">>)])]
    /\ UNCHANGED <<resultEl, historyList, btnDisabled, timers, nextId, now>>

----------------------------------------------------------------------------
(* The page *)

\* The state when the script has run: line 58 has called loadHistory().
Init ==
    /\ resultEl = <<>>
    /\ historyList = <<>>
    /\ btnDisabled = FALSE
    /\ tasks = << Task("history", NoArg) >>
    /\ timers = <<>>
    /\ store = <<>>
    /\ nextId = 1
    /\ now = 1

Next ==
    \/ \E raw \in RawInputs : Submit(raw)
    \/ \E n \in 1..Len(historyList) : ClickHistoryItem(n)
    \/ \E confirmed \in BOOLEAN : ClickClear(confirmed)
    \/ \E k \in 1..Len(tasks) :
        \/ BackendAnalyze(k) \/ BackendHistory(k) \/ BackendClear(k)
        \/ AnalyzeReplied(k) \/ AnalyzeRejected(k)
        \/ HistoryReplied(k) \/ HistoryRejected(k)
        \/ LookupReplied(k) \/ LookupRejected(k)
        \/ ClearReplied(k) \/ ClearRejected(k)
    \/ \E k \in 1..Len(timers) : Tick(k)

Spec == Init /\ [][Next]_vars

----------------------------------------------------------------------------
(* The continuations over a range of replies: an analysis reply or a history
   reply has arrived and its handler runs. *)

MaxItems == 3     \* conditions plus next steps of a record; entries of a reply

RECURSIVE SeqsUpTo(_, _)
\* The sequences over S of length at most n.
SeqsUpTo(S, n) ==
    IF n = 0 THEN { <<>> }
    ELSE LET shorter == SeqsUpTo(S, n - 1)
         IN  shorter \cup { Append(q, x) : q \in shorter, x \in S }

Confidences ==
    { Str(<<"l", "o", "w">>), Str(<<"L", "o", "w">>), Str(<<"L", "O", "W">>),
      Str(<<"m", "a", "y", "b", "e">>), Num(7), Undefined, Null }
Conditions == { Condition(<<"flu">>, c) : c \in Confidences }
Steps == { Str(<<"rest">>), Str(<<"drink water">>) }
Escalation(level) ==
    [k |-> "object", level |-> Str(level),
     message |-> Str(<<"Seek emergency care">>)]
Escalations ==
    { Undefined,
      Escalation(<<"c", "r", "i", "t", "i", "c", "a", "l">>),
      Escalation(<<"i", "n", "f", "o">>) }
Metadatas == { Undefined, [k |-> "object"], Obj(Str(<<"gpt">>), Num(5)) }

\* An array, or the field absent where the array would be empty.
ArrayOrAbsent(q) == IF Len(q) = 0 THEN { Undefined, Arr(q) } ELSE { Arr(q) }

Record(e, cs, ss, m) ==
    [k |-> "object", disclaimer |-> Disclaimer, escalation |-> e,
     probable_conditions |-> cs, next_steps |-> ss, metadata |-> m]

\* A text of n letters.
Letters(n) == [m \in 1..n |-> IF m % 2 = 1 THEN "a" ELSE "b"]
SymptomInputs ==
    { Letters(n) : n \in {1, PreviewLen - 1, PreviewLen, PreviewLen + 1,
                          PreviewLen + 2} }
HistoryEntries == { Entry(1, sy, 1, Null) : sy \in SymptomInputs }

Replied(kind, arg, body) ==
    [kind |-> kind, arg |-> arg, reply |-> Reply(TRUE, TRUE, body)]

\* An analysis reply with a record of at most MaxItems conditions and next
\* steps in all, or a history reply with at most MaxItems entries.
InitReplies ==
    /\ historyList = <<>>
    /\ timers = <<>>
    /\ store = <<>>
    /\ nextId = 1
    /\ now = 1
    /\ \/ /\ \E n \in 0..MaxItems, e \in Escalations, m \in Metadatas :
             \E q \in [1..n -> Conditions], p \in SeqsUpTo(Steps, MaxItems - n) :
             \E cs \in ArrayOrAbsent(q), ss \in ArrayOrAbsent(p) :
                tasks = << Replied("analyze", [symptoms |-> <<"f", "l", "u">>],
                                   Record(e, cs, ss, m)) >>
          /\ btnDisabled = TRUE
          /\ resultEl = LoadingHTML
       \/ /\ \E n \in 0..MaxItems : \E q \in [1..n -> HistoryEntries] :
                tasks = << Replied("history", NoArg,
                                   [k |-> "object", history |-> Arr(q)]) >>
          /\ btnDisabled = FALSE
          /\ resultEl = <<>>

NextReplies == \E k \in 1..Len(tasks) : AnalyzeReplied(k) \/ HistoryReplied(k)

SpecReplies == InitReplies /\ [][NextReplies]_vars

----------------------------------------------------------------------------
(* Two renders of one saved record: the user has clicked a history item
   twice, both lookups have been answered, and time passes between the two
   continuations. *)

MaxNow == 2       \* the latest time on the clock

\* Time passes.
AdvanceClock ==
    /\ now < MaxNow
    /\ now' = now + 1
    /\ UNCHANGED <<resultEl, historyList, btnDisabled, tasks, timers, store, nextId>>

\* Saved records that render: with and without escalation, conditions, next
\* steps and metadata.
SavedRecords ==
    { Record(e, cs, ss, m) :
        e \in Escalations, m \in Metadatas,
        cs \in { Undefined, Arr(<<>>),
                 Arr(<< Condition(<<"flu">>, Str(<<"l", "o", "w">>)) >>) },
        ss \in { Undefined, Arr(<< Str(<<"rest">>) >>) } }

InitRenders ==
    /\ resultEl = <<>>
    /\ btnDisabled = FALSE
    /\ timers = <<>>
    /\ nextId = 2
    /\ now = 1
    /\ \E record \in SavedRecords :
        LET entry == Entry(1, <<"f", "l", "u">>, 1, record)
            lookup == Replied("lookup", [id |-> 1],
                              [k |-> "object", history |-> Arr(<<entry>>)])
        IN  /\ store = <<entry>>
            /\ historyList = HistoryItems(<<entry>>)
            /\ tasks = <<lookup, lookup>>

NextRenders == AdvanceClock \/ \E k \in 1..Len(tasks) : LookupReplied(k)

SpecRenders == InitRenders /\ [][NextRenders]_vars

----------------------------------------------------------------------------
(* The page on a reliable network: every fetch is answered, none rejects. *)

NextReliable ==
    \/ \E raw \in RawInputs : Submit(raw)
    \/ \E n \in 1..Len(historyList) : ClickHistoryItem(n)
    \/ \E confirmed \in BOOLEAN : ClickClear(confirmed)
    \/ \E k \in 1..Len(tasks) :
        \/ BackendAnalyze(k) \/ BackendHistory(k) \/ BackendClear(k)
        \/ AnalyzeReplied(k) \/ HistoryReplied(k)
        \/ LookupReplied(k) \/ ClearReplied(k)
    \/ \E k \in 1..Len(timers) : Tick(k)

SpecReliable == Init /\ [][NextReliable]_vars

----------------------------------------------------------------------------
(* A single uninterrupted reveal: typeResult has just started the reveal of
   a saved record, nothing else is in flight and the user does nothing.
   setInterval fires the callback again and again until the timer is
   cleared. *)

InitReveal ==
    /\ resultEl = <<>>
    /\ btnDisabled = FALSE
    /\ tasks = <<>>
    /\ nextId = 2
    /\ now = 1
    /\ \E record \in SavedRecords :
        LET entry == Entry(1, <<"f", "l", "u">>, 1, record)
        IN  /\ store = <<entry>>
            /\ historyList = HistoryItems(<<entry>>)
            /\ timers = << [html |-> Rendering(record).html, i |-> 0] >>

NextReveal == \E k \in 1..Len(timers) : Tick(k)

\* Fairness: a timer that is not cleared fires.
SpecReveal ==
    InitReveal /\ [][NextReveal]_vars
    /\ WF_timers(\E k \in 1..Len(timers) : TimerFires(k))

----------------------------------------------------------------------------
(* One submission from the await of fetch to the end of the handler: the
   request is still to be answered, or it has been answered with a record
   that renders or with one whose rendering throws. *)

\* A record whose rendering throws: a confidence that is a number.
ThrowingRecords ==
    { Record(Undefined, Arr(<< Condition(<<"flu">>, Num(7)) >>), Undefined, m) :
        m \in Metadatas }

InitSubmits ==
    /\ resultEl = LoadingHTML
    /\ historyList = <<>>
    /\ btnDisabled = TRUE
    /\ timers = <<>>
    /\ now = 1
    /\ \/ /\ \E raw \in RawInputs :
               tasks = << Task("analyze", [symptoms |-> Trim(raw)]) >>
          /\ store = <<>>
          /\ nextId = 1
       \/ /\ \E record \in SavedRecords \cup ThrowingRecords :
               /\ tasks = << Replied("analyze", [symptoms |-> <<"f", "l", "u">>],
                                     record) >>
               /\ store = << Entry(1, <<"f", "l", "u">>, 1, record) >>
          /\ nextId = 2

NextSubmits ==
    \E k \in 1..Len(tasks) :
        BackendAnalyze(k) \/ AnalyzeReplied(k) \/ AnalyzeRejected(k)

\* The handler of tasks[k] resumes after its awaits: it leaves tasks, alone
\* or for the loadHistory() of line 80.
AnalyzeResumes(k) ==
    /\ tasks[k].kind = "analyze"
    /\ tasks[k].reply.replied
    /\ \E issued \in { <<>>, << Task("history", NoArg) >> } :
         tasks' = RemoveAt(tasks, k) \o issued

\* Fairness: a fetch settles (it is answered or it rejects), and a handler
\* whose awaits have settled resumes.
SpecSubmits ==
    InitSubmits /\ [][NextSubmits]_vars
    /\ WF_tasks(\E k \in 1..Len(tasks) :
                   BackendAnalyze(k) \/ AnalyzeRejected(k) \/ AnalyzeResumes(k))

----------------------------------------------------------------------------
(* Claims *)

\* The analyze requests in flight: the submit handlers suspended at an await.
AnalyzeInFlight ==
    Cardinality({ k \in 1..Len(tasks) : tasks[k].kind = "analyze" })

\* tokens is one of the handlers' error messages: <p class='error'>...</p>.
IsErrorMessage(tokens) ==
    tokens # <<>> /\ tokens[1] = Open("p", "error", NoText)

\* C1: a call of typeResult cancels the reveal in flight, so no earlier timer
\* is left to write to the result area: at most one interval timer runs at
\* any time.
C1_EarlierRevealCancelled == Len(timers) <= 1

\* C2: in a single uninterrupted reveal, the tick that stops the timer writes
\* the whole string: the length of its slice is html.length.
C2_FinalContentIsWhole ==
    [][\A k \in 1..Len(timers) :
          (Len(timers) = 1 /\ Tick(k) /\ timers' = <<>>)
            => TickSlice(timers[k]) = Len(timers[k].html)]_vars

\* C3: at most one analyze request is in flight at any time, the analyze
\* button is disabled while it is, and a submission issues exactly one
\* request.
C3_SingleAnalyzeInFlight ==
    [][/\ AnalyzeInFlight' <= 1
       /\ (AnalyzeInFlight' = 1 => btnDisabled')
       /\ \A raw \in RawInputs :
            Submit(raw) => AnalyzeInFlight' = AnalyzeInFlight + 1]_vars

C3_Witness == AnalyzeInFlight = 1 /\ btnDisabled /\ ~tasks[Len(tasks)].reply.replied

\* C4: a submission whose trimmed symptoms are empty ends in an error
\* message, with no reveal of an advisory started and no entry stored.
C4_EmptyQueryShowsError ==
    [][\A k \in 1..Len(tasks) :
          /\ (BackendAnalyze(k) /\ tasks[k].arg.symptoms = <<>>)
               => store' = store
          /\ (AnalyzeReplied(k) /\ tasks[k].arg.symptoms = <<>>)
               => (IsErrorMessage(resultEl') /\ timers' = timers)]_vars

\* C5: whenever the analyze call fails (fetch rejects, the reply is not
\* JSON, or the reply is a failure reply), the handler shows an error
\* message and starts no reveal.
C5_FailureShowsError ==
    [][\A k \in 1..Len(tasks) :
          (AnalyzeRejected(k) \/ (AnalyzeReplied(k) /\ ~tasks[k].reply.ok))
            => (IsErrorMessage(resultEl') /\ timers' = timers)]_vars

\* The positions of the tokens that satisfy Test, in order.  (In the claims
\* below a \A over a singleton set names a value.)
Where(tokens, Test(_)) ==
    SelectSeq([i \in 1..Len(tokens) |-> i], LAMBDA i : Test(tokens[i]))
OpensOf(tokens, base) ==
    Where(tokens, LAMBDA tk : tk.t = "open" /\ tk.base = base)
TagsOf(tokens, t, tag) ==
    Where(tokens, LAMBDA tk : tk.t = t /\ tk.tag = tag)

\* The markup of the reveal the step has started.
StartedHTML == Join(timers'[Len(timers')].html)
\* The step has started a reveal: buildResultHTML returned.
StartsReveal == Len(timers') = Len(timers) + 1 /\ resultEl' = <<>>

ConditionsOf(d) == ItemsOrEmpty(Field(d, "probable_conditions"))
StepsOf(d) == ItemsOrEmpty(Field(d, "next_steps"))

\* The tokens of the n-th condition block: from its opening tag to the token
\* before the next block (or to the end).
BlockRange(tokens, n) ==
    LET blocks == OpensOf(tokens, "condition")
    IN  blocks[n]..(IF n < Len(blocks) THEN blocks[n + 1] - 1 ELSE Len(tokens))
BarsOf(tokens, n) ==
    { i \in BlockRange(tokens, n) : tokens[i].base = "confidence-bar" }

LevelNames ==
    { <<"l", "o", "w">>, <<"m", "e", "d", "i", "u", "m">>, <<"h", "i", "g", "h">> }
\* v is low, medium or high in some letter case.
Recognized(v) == v.k = "string" /\ ToLowerCase(v.s) \in LevelNames
\* Every confidence of the record is a text or absent, as the schema has it.
TextConfidences(d) ==
    \A n \in 1..Len(ConditionsOf(d)) :
        ConditionsOf(d)[n].confidence.k \in {"string", "undefined", "null"}

\* C6: a condition whose confidence is not low, medium or high (in any
\* letter case, a non-text value or none) is rendered without a confidence
\* indicator, and rendering the record does not fail.
C6_UnrecognizedConfidenceOmitted ==
    [][\A k \in 1..Len(tasks) :
          AnalyzeReplied(k) =>
            LET cs == ConditionsOf(tasks[k].reply.body)
            IN  (\E n \in 1..Len(cs) : ~Recognized(cs[n].confidence))
                  => /\ StartsReveal
                     /\ \A n \in 1..Len(cs) :
                          ~Recognized(cs[n].confidence)
                            => BarsOf(StartedHTML, n) = {}]_vars

\* C7: two conditions whose confidences differ only in letter case get the
\* same class on their confidence indicators.
C7_CaseInsensitiveClass ==
    [][\A k \in 1..Len(tasks) :
          (AnalyzeReplied(k) /\ StartsReveal) =>
            \A cs \in { ConditionsOf(tasks[k].reply.body) },
               tokens \in { StartedHTML } :
            \A classes \in { [n \in 1..Len(cs) |->
                                { tokens[i].mod : i \in BarsOf(tokens, n) }] } :
                \A n, m \in 1..Len(cs) :
                  ( /\ cs[n].confidence.k = "string"
                    /\ cs[m].confidence.k = "string"
                    /\ ToUpperCase(cs[n].confidence.s)
                         = ToUpperCase(cs[m].confidence.s) )
                  => classes[n] = classes[m]]_vars

\* A reveal of a record with two conditions that spell their confidence
\* differently and whose indicators carry one class.
C7_Witness ==
    \E k \in 1..Len(timers) :
        LET tokens == Join(timers[k].html)
        IN  \E i, j \in 1..Len(tokens) :
              /\ tokens[i].base = "confidence-bar"
              /\ tokens[j].base = "confidence-bar"
              /\ tokens[i].mod = tokens[j].mod
              /\ tokens[i + 8].txt # tokens[j + 8].txt

\* C8: the text of a history item is the first 50 characters of the
\* symptoms followed by the ellipsis when the symptoms are longer than 50
\* characters, and the symptoms verbatim otherwise.
C8_PreviewTruncation ==
    [][\A k \in 1..Len(tasks) :
          HistoryReplied(k) =>
            LET entries == tasks[k].reply.body.history.items
            IN  /\ entries # <<>> => Len(historyList') = Len(entries)
                /\ \A n \in 1..Len(entries) :
                     LET symptoms == entries[n].symptoms.s
                         text == historyList'[n].text
                     IN  IF Len(symptoms) > 50
                         THEN /\ Len(text) = 51
                              /\ \A i \in 1..50 : text[i] = symptoms[i]
                              /\ text[51] = "..."
                         ELSE text = symptoms]_vars

\* A history list with a truncated item and an item of exactly 50 characters
\* shown whole.
C8_Witness ==
    \E n, m \in 1..Len(historyList) :
        /\ Len(historyList[n].text) = 51 /\ historyList[n].text[51] = "..."
        /\ Len(historyList[m].text) = 50 /\ historyList[m].text[50] # "..."

\* C9: the markup holds an escalation banner exactly when the record has an
\* escalation; the banner carries the level (as its class and, in upper
\* case, as its tag) and the message text; rendering does not fail with or
\* without an escalation.
C9_EscalationBanner ==
    [][\A k \in 1..Len(tasks) :
          (AnalyzeReplied(k) /\ TextConfidences(tasks[k].reply.body)) =>
            /\ StartsReveal
            /\ \A e \in { Field(tasks[k].reply.body, "escalation") },
                  tokens \in { StartedHTML } :
               \A banners \in { OpensOf(tokens, "alert") } :
                   IF e.k = "object"
                   THEN /\ Len(banners) = 1
                        /\ tokens[banners[1]].mod = e.level.s
                        /\ tokens[banners[1] + 3].txt = ToUpperCase(e.level.s)
                        /\ tokens[banners[1] + 5].txt = <<": ">> \o e.message.s
                   ELSE banners = <<>>]_vars

\* A reveal of a record with a critical escalation.
C9_Witness ==
    \E k \in 1..Len(timers) :
        LET tokens == Join(timers[k].html)
        IN  \E i \in 1..Len(tokens) :
              /\ tokens[i].base = "alert"
              /\ tokens[i].mod = <<"c", "r", "i", "t", "i", "c", "a", "l">>
              /\ tokens[i + 3].txt = <<"C", "R", "I", "T", "I", "C", "A", "L">>
              /\ tokens[i + 5].txt = <<": ", "Seek emergency care">>

\* q is strictly increasing.
Increasing(q) == \A i \in 1..(Len(q) - 1) : q[i] < q[i + 1]

\* The sections of tokens come in the order disclaimer, banner, conditions,
\* next steps, footer, one block per condition of d and one list item per
\* next step of d, in the order of d.  (Each \A over a singleton names a
\* value.)
SectionsInOrder(d, tokens) ==
    \A disclaimer \in { OpensOf(tokens, "disclaimer") },
       banners \in { OpensOf(tokens, "alert") },
       headings \in { TagsOf(tokens, "open", "h2") },
       blocks \in { OpensOf(tokens, "condition") },
       list \in { TagsOf(tokens, "open", "ul") },
       items \in { TagsOf(tokens, "open", "li") },
       listEnd \in { TagsOf(tokens, "close", "ul") },
       footer \in { OpensOf(tokens, "meta") } :
        /\ Len(disclaimer) = 1 /\ Len(headings) = 2 /\ Len(list) = 1
        /\ Len(listEnd) = 1 /\ Len(footer) = 1
        /\ Len(banners) = (IF Truthy(Field(d, "escalation")) THEN 1 ELSE 0)
        /\ Len(blocks) = Len(ConditionsOf(d))
        /\ Len(items) = Len(StepsOf(d))
        /\ Increasing(disclaimer \o banners \o <<headings[1]>> \o blocks
                      \o <<headings[2]>> \o list \o items \o listEnd \o footer)
        /\ \A n \in 1..Len(blocks) :
             /\ tokens[blocks[n] + 2].txt = ToText(ConditionsOf(d)[n].name)
             /\ tokens[blocks[n] + 12].txt
                  = <<" ">> \o ToText(ConditionsOf(d)[n].confidence)
        /\ \A n \in 1..Len(items) :
             tokens[items[n] + 1].txt = ToText(StepsOf(d)[n])

\* C10: the sections come in the order disclaimer, banner, conditions, next
\* steps, footer, with one block per condition and one list item per next
\* step, each in the order of the record.
C10_SectionOrder ==
    [][\A k \in 1..Len(tasks) :
          (AnalyzeReplied(k) /\ StartsReveal) =>
            \A tokens \in { StartedHTML } :
                SectionsInOrder(tasks[k].reply.body, tokens)]_vars

\* A reveal of a record with a banner, two different conditions and a next
\* step.
C10_Witness ==
    \E k \in 1..Len(timers) :
        LET tokens == Join(timers[k].html)
            blocks == OpensOf(tokens, "condition")
            items == TagsOf(tokens, "open", "li")
        IN  /\ OpensOf(tokens, "alert") # <<>>
            /\ Len(blocks) = 2
            /\ tokens[blocks[1] + 12].txt # tokens[blocks[2] + 12].txt
            /\ Len(items) = 1

\* C11: buildResultHTML is deterministic: the renders of one record, made at
\* any two moments, are the same markup.  (Under SpecRenders every reveal is
\* of the one saved record.)
C11_RenderDeterministic ==
    \A i, j \in 1..Len(timers) : timers[i].html = timers[j].html

\* The lookup of tasks[k] has been answered with a history that does not hold
\* the id it looks for.
UnknownId(k) ==
    /\ tasks[k].kind = "lookup"
    /\ tasks[k].reply.replied
    /\ tasks[k].reply.parseable
    /\ Field(tasks[k].reply.body, "history").k = "array"
    /\ \A n \in 1..Len(tasks[k].reply.body.history.items) :
         tasks[k].reply.body.history.items[n].query_id # tasks[k].arg.id

\* C12: a lookup of a query_id that is not in the history shows the "no
\* saved response" message, which is none of the generic failure messages,
\* and starts no reveal.
C12_UnknownIdNotFound ==
    [][\A k \in 1..Len(tasks) :
          (UnknownId(k) /\ LookupReplied(k)) =>
            /\ resultEl' = NoSavedHTML
            /\ resultEl' \notin { ErrorHTML(FetchError), ErrorHTML(SyntaxError),
                                  ErrorHTML(TypeError) }
            /\ timers' = timers]_vars

\* The message is on display for an entry that a clear has removed while its
\* item was still listed.
C12_Witness ==
    /\ resultEl = NoSavedHTML
    /\ store = <<>>
    /\ \E n \in 1..Len(historyList) : historyList[n].id # NoId

\* The clear requests in flight: the clear handlers suspended at an await.
ClearRequests ==
    Cardinality({ k \in 1..Len(tasks) : tasks[k].kind = "clear" })

\* C13: a clear request is sent only by a confirmed click, the store is
\* emptied only for a clear request, and a declined click sends nothing and
\* leaves the store and the displayed history list as they are.
C13_ClearOnlyWhenConfirmed ==
    [][/\ ClearRequests' > ClearRequests => ClickClear(TRUE)
       /\ (store # <<>> /\ store' = <<>>) =>
            \E k \in 1..Len(tasks) : tasks[k].kind = "clear" /\ BackendClear(k)
       /\ ClickClear(FALSE) => UNCHANGED <<tasks, store, historyList>>]_vars

\* A confirmed clear request is on its way to a store that holds an entry.
C13_Witness ==
    /\ store # <<>>
    /\ \E k \in 1..Len(tasks) :
         tasks[k].kind = "clear" /\ ~tasks[k].reply.replied

\* What loadHistory displays for the present content of the store.
ListOfStore == HistoryList([k |-> "object", history |-> Arr(store)])

\* C14: once a clear and every fetch after it have completed, with the store
\* left empty, the history list on display is the empty placeholder: no
\* entry of before the clear is displayed.
C14_ClearedListIsEmpty ==
    (tasks = <<>> /\ store = <<>>) => historyList = <<PlaceholderItem>>

\* C19: once all history fetches have completed, the history list on display
\* is the response to the fetch issued last.  (On a reliable network every
\* change of the store is followed by a loadHistory() of the handler that
\* asked for it, so the fetch issued last is answered with the present
\* store.)
C19_LatestFetchShown == tasks = <<>> => historyList = ListOfStore

\* p is a prefix of q.
IsPrefix(p, q) == Len(p) <= Len(q) /\ p = SubSeq(q, 1, Len(p))

\* C15: in a single uninterrupted reveal, what every tick leaves on display
\* is a prefix of the full markup, and is never shorter than what the tick
\* before left.
C15_PrefixesGrow ==
    [][\A k \in 1..Len(timers) :
          (Len(timers) = 1 /\ Tick(k)) =>
            /\ IsPrefix(resultEl', Join(timers[k].html))
            /\ Len(resultEl') >= Len(resultEl)]_vars

\* C16: every reveal terminates: its timer is eventually cleared, and from
\* then on no timer runs.
C16_RevealTerminates == <>[](timers = <<>>)

\* A reveal has ended: its timer is cleared and its markup is on display.
C16_Witness ==
    /\ timers = <<>>
    /\ resultEl # <<>>
    /\ resultEl[1] = Open("div", "result-card", NoText)

\* C17: every submission eventually re-enables the analyze button, whether
\* the request is answered (with a record, with a failure, with a record
\* whose rendering throws) or rejects: the button never stays disabled.
C17_ButtonReenabled == btnDisabled ~> ~btnDisabled

\* The button is enabled again after a rendering that threw.
C17_Witness ==
    /\ ~btnDisabled
    /\ resultEl = ErrorHTML(TypeError)
    /\ AnalyzeInFlight = 0

\* The field f of d is absent.
Absent(d, f) == Field(d, f).k = "undefined"

\* In tokens the conditions section is empty when d has no
\* probable_conditions, the list of next steps is empty when d has no
\* next_steps, and the footer names the model "local" and carries the time t
\* when d has no metadata.
AbsentFieldsDefault(d, tokens, t) ==
    \A headings \in { TagsOf(tokens, "open", "h2") },
       list \in { TagsOf(tokens, "open", "ul") },
       footer \in { OpensOf(tokens, "meta") } :
        /\ Len(headings) = 2 /\ Len(list) = 1 /\ Len(footer) = 1
        /\ Absent(d, "probable_conditions") =>
             /\ OpensOf(tokens, "condition") = <<>>
             /\ headings[2] = headings[1] + 3
        /\ Absent(d, "next_steps") => tokens[list[1] + 1] = Close("ul")
        /\ Absent(d, "metadata") =>
             /\ tokens[footer[1] + 5].txt = <<" ", "local">>
             /\ tokens[footer[1] + 9].txt = LocaleString(t)

\* C18: rendering a record without probable_conditions, next_steps or
\* metadata does not fail; the absent sequence gives an empty section and the
\* absent metadata the model name "local" (and the current time).
C18_AbsentFieldsDefault ==
    [][\A k \in 1..Len(tasks) :
          ( /\ AnalyzeReplied(k)
            /\ TextConfidences(tasks[k].reply.body)
            /\ \E f \in {"probable_conditions", "next_steps", "metadata"} :
                 Absent(tasks[k].reply.body, f) )
          => /\ StartsReveal
             /\ \A tokens \in { StartedHTML } :
                  AbsentFieldsDefault(tasks[k].reply.body, tokens, now)]_vars

\* A reveal of a record that has none of the three: two headings with
\* nothing between them, an empty list and the model "local".
C18_Witness ==
    \E k \in 1..Len(timers) :
        LET tokens == Join(timers[k].html)
            headings == TagsOf(tokens, "open", "h2")
            list == TagsOf(tokens, "open", "ul")
            footer == OpensOf(tokens, "meta")
        IN  /\ headings[2] = headings[1] + 3
            /\ tokens[list[1] + 1] = Close("ul")
            /\ tokens[footer[1] + 5].txt = <<" ", "local">>

\* C20: the loading indicator and the error messages stay on display until
\* a render or a user action replaces them: no tick of a reveal writes over
\* them.
C20_MessageNotOverwritten ==
    [][\A k \in 1..Len(timers) :
          Tick(k) => ~(resultEl = LoadingHTML \/ IsErrorMessage(resultEl))]_vars

====
